---- MODULE Spec2Model ----
(***************************************************************************)
(* Model of timesheetTracker.py: the TimesheetTracker window's entry list  *)
(* (the QTreeWidget rows), its running totals, the expected-time label and *)
(* the JSON load/save handlers.                                            *)
(*                                                                         *)
(* Python floats are IEEE-754 doubles.  They are modelled exactly, as      *)
(* sign and magnitude in units of 2^-FracBits held in three 24-bit limbs   *)
(* (least significant first), every arithmetic result rounded to Precision *)
(* significant bits, ties to even.  The representation covers the doubles  *)
(* of magnitude below 2^12 that are multiples of 2^-FracBits, which holds  *)
(* every value the bounded inputs of this model can produce.               *)
(***************************************************************************)
EXTENDS Integers, Sequences, FiniteSets, TLC

VARIABLES
    tree,                  \* rows of self.tree, in topLevelItem order
    total_time,            \* self.total_time
    billable_time,         \* self.billable_time
    expected_time_offset,  \* self.expected_time_offset
    project_groups,        \* self.project_groups: first letter -> hours
    expected_time_label,   \* time shown by self.expected_time_label
    current_file,          \* self.current_file
    editing,               \* the row edit_entry took out to fill the form, or NoItem
    running,               \* FALSE once an exception left a slot unhandled
    fs,                    \* the files on disk: filename -> content
    adds,                  \* number of rows add_entry has added so far
    writes                 \* number of writes to disk so far

vars == <<tree, total_time, billable_time, expected_time_offset, project_groups,
          expected_time_label, current_file, editing, running, fs, adds, writes>>

----------------------------------------------------------------------------
(* Bounds of the model *)

MaxEntries == 2
MaxAdds == 2
MaxWrites == 1

----------------------------------------------------------------------------
(* IEEE-754 double arithmetic *)

Base == 2^24
FracBits == 60
Precision == 53
TopShift == 2^(FracBits - 48)

\* number of bits of n < 2^24
RECURSIVE BitLenIn(_, _, _)
BitLenIn(n, lo, hi) ==
    IF lo = hi THEN lo
    ELSE LET mid == (lo + hi + 1) \div 2
         IN IF n >= 2^(mid - 1) THEN BitLenIn(n, mid, hi) ELSE BitLenIn(n, lo, mid - 1)

BitLen(n) == BitLenIn(n, 0, 24)

MagZero == <<0, 0, 0>>

MagLess(a, b) ==
    \/ a[3] < b[3]
    \/ a[3] = b[3] /\ a[2] < b[2]
    \/ a[3] = b[3] /\ a[2] = b[2] /\ a[1] < b[1]

MagAdd(a, b) ==
    LET s1 == a[1] + b[1]
        s2 == a[2] + b[2] + (s1 \div Base)
        s3 == a[3] + b[3] + (s2 \div Base)
    IN <<s1 % Base, s2 % Base, s3>>

\* a - b for a >= b
MagSub(a, b) ==
    LET d1 == a[1] - b[1]
        c1 == IF d1 < 0 THEN 1 ELSE 0
        d2 == a[2] - b[2] - c1
        c2 == IF d2 < 0 THEN 1 ELSE 0
    IN <<d1 + c1 * Base, d2 + c2 * Base, a[3] - b[3] - c2>>

\* a * k for a small k
MagMul(a, k) ==
    LET p1 == a[1] * k
        p2 == a[2] * k + (p1 \div Base)
        p3 == a[3] * k + (p2 \div Base)
    IN <<p1 % Base, p2 % Base, p3>>

\* quotient and remainder of a by a small k
MagDiv(a, k) ==
    LET q3 == a[3] \div k
        c2 == (a[3] % k) * Base + a[2]
        q2 == c2 \div k
        c1 == (c2 % k) * Base + a[1]
    IN [q |-> <<c1 \div k, q2, q3>>, r |-> c1 % k]

MagBitLen(a) ==
    IF a[3] > 0 THEN 48 + BitLen(a[3])
    ELSE IF a[2] > 0 THEN 24 + BitLen(a[2]) ELSE BitLen(a[1])

\* a \div 2^q and a * 2^q, for 0 < q < 24
MagShr(a, q) ==
    LET w == 2^q
        v == 2^(24 - q)
    IN <<(a[1] \div w) + (a[2] % w) * v, (a[2] \div w) + (a[3] % w) * v, a[3] \div w>>

MagShl(a, q) ==
    LET w == 2^q
        v == 2^(24 - q)
    IN <<(a[1] % v) * w, (a[2] % v) * w + (a[1] \div v), a[3] * w + (a[2] \div v)>>

\* Round a magnitude to Precision significant bits, to nearest, ties to even.
\* sticky: nonzero bits were already dropped below the unit.
MagRound(a, sticky) ==
    LET Up(hi, low, half) == \/ low > half
                             \/ low = half /\ (sticky \/ hi[1] % 2 = 1)
        Nearest(hi, q) == IF Up(hi, a[1] % (2^q), 2^(q - 1))
                          THEN MagAdd(hi, <<1, 0, 0>>) ELSE hi
        Dropping(q) == IF q <= 0 THEN a ELSE MagShl(Nearest(MagShr(a, q), q), q)
    IN Dropping(MagBitLen(a) - Precision)

Float(neg, m) == [neg |-> neg /\ m # MagZero, m |-> m]

FZero == Float(FALSE, MagZero)

\* float(n) of a small int n
FromInt(n) == Float(n < 0, <<0, 0, (IF n < 0 THEN -n ELSE n) * TopShift>>)

FNeg(a) == Float(~a.neg, a.m)

\* a + b
FAdd(a, b) ==
    Float(IF a.neg # b.neg /\ MagLess(a.m, b.m) THEN b.neg ELSE a.neg,
          MagRound(IF a.neg = b.neg THEN MagAdd(a.m, b.m)
                   ELSE IF MagLess(a.m, b.m) THEN MagSub(b.m, a.m)
                   ELSE MagSub(a.m, b.m),
                   FALSE))

\* a - b
FSub(a, b) == FAdd(a, FNeg(b))

\* a * k for a small positive int k
FMul(a, k) == Float(a.neg, MagRound(MagMul(a.m, k), FALSE))

\* int(a): truncation toward zero
Trunc(a) ==
    LET n == a.m[3] \div TopShift
    IN IF a.neg THEN -n ELSE n

\* round(a): to the nearest int, ties to even
PyRound(a) ==
    LET n == a.m[3] \div TopShift
        frac == <<a.m[1], a.m[2], a.m[3] % TopShift>>
        half == <<0, 0, TopShift \div 2>>
        r == IF MagLess(half, frac) \/ (frac = half /\ n % 2 = 1) THEN n + 1 ELSE n
    IN IF a.neg THEN -r ELSE r

----------------------------------------------------------------------------
(* Text of numbers.  A decimal numeral "d.ddd" is its digits read as one   *)
(* integer and the number of digits after the point: "0.05" is            *)
(* Numeral(5, 2), "2.5" is Numeral(25, 1), "1" is Numeral(1, 0).  Any      *)
(* other text is a Word.                                                   *)

Numeral(d, p) == [digits |-> d, places |-> p]
Word(s) == [word |-> s]
IsNumeral(t) == "digits" \in DOMAIN t \/ "repr" \in DOMAIN t

\* the double nearest to d / 10^p (p <= 2, d / 10^p = 0 or >= 2^-7)
ParseDecimal(d, p) ==
    LET Rounded(dv) == Float(FALSE, MagRound(dv.q, dv.r # 0))
    IN Rounded(MagDiv(<<0, 0, d * TopShift>>, 10^p))

\* ParseDecimal of the short numerals, computed once
ParseTable == [p \in 0..2 |-> [d \in 0..(10^3) |-> ParseDecimal(d, p)]]

Parse(d, p) == IF d <= 10^3 THEN ParseTable[p][d] ELSE ParseDecimal(d, p)

\* float(text) of a numeral
FloatOfText(t) ==
    IF "repr" \in DOMAIN t THEN t.repr ELSE Parse(t.digits, t.places)

\* the integer nearest to a * k (a >= 0), exactly
NearestInt(a, k) ==
    LET m == MagMul(a.m, k)
        n == m[3] \div TopShift
        frac == <<m[1], m[2], m[3] % TopShift>>
    IN IF MagLess(frac, <<0, 0, TopShift \div 2>>) THEN n ELSE n + 1

\* str(x) of a float: the shortest numeral, with at least one digit after
\* the point, that float() reads back as x.  Doubles that need more than two
\* digits after the point are kept as the text that reads back as themselves.
StrFloat(x) ==
    LET Shortest(fit) ==
            IF fit = {} THEN [repr |-> x]
            ELSE IF 1 \in fit THEN Numeral(NearestInt(x, 10), 1)
            ELSE Numeral(NearestInt(x, 100), 2)
    IN Shortest({p \in 1..2 : ~x.neg /\ Parse(NearestInt(x, 10^p), p) = x})

----------------------------------------------------------------------------
(* Text of projects: a Python str as the sequence of its characters *)

Lowers == <<"a","b","c","d","e","f","g","h","i","j","k","l","m",
            "n","o","p","q","r","s","t","u","v","w","x","y","z">>
Uppers == <<"A","B","C","D","E","F","G","H","I","J","K","L","M",
            "N","O","P","Q","R","S","T","U","V","W","X","Y","Z">>

IndexIn(seq, c) == IF \E i \in DOMAIN seq : seq[i] = c
                   THEN CHOOSE i \in DOMAIN seq : seq[i] = c ELSE 0

Range(seq) == {seq[i] : i \in DOMAIN seq}
LowerMap == [c \in Range(Uppers) |-> Lowers[IndexIn(Uppers, c)]]
UpperMap == [c \in Range(Lowers) |-> Uppers[IndexIn(Lowers, c)]]
CodeMap == [c \in Range(Uppers) \cup Range(Lowers) |->
              IF IndexIn(Uppers, c) > 0 THEN 64 + IndexIn(Uppers, c)
              ELSE 96 + IndexIn(Lowers, c)]

\* str.lower() and str.upper() of one character
CharLower(c) == IF c \in DOMAIN LowerMap THEN LowerMap[c] ELSE c
CharUpper(c) == IF c \in DOMAIN UpperMap THEN UpperMap[c] ELSE c
StrLower(s) == [i \in DOMAIN s |-> CharLower(s[i])]

\* code point of a character (letters, and "?" for the rest of the alphabet used)
CharCode(c) == IF c \in DOMAIN CodeMap THEN CodeMap[c] ELSE 63

\* a < b as the tree compares the texts of a column: by code points
RECURSIVE StrLess(_, _)
StrLess(a, b) ==
    IF b = <<>> THEN FALSE
    ELSE IF a = <<>> THEN TRUE
    ELSE IF CharCode(a[1]) # CharCode(b[1]) THEN CharCode(a[1]) < CharCode(b[1])
    ELSE StrLess(Tail(a), Tail(b))

lunch == <<"l","u","n","c","h">>
Lunch == <<"L","u","n","c","h">>
Widgets == <<"W","i","d","g","e","t","s">>
wip == <<"w","i","p">>
kdg == <<"k","d","g">>

----------------------------------------------------------------------------
(* Rows of the tree *)

\* QTreeWidgetItem([time, billable, project, description, timestamp])
Item(time, billable, project, description, timestamp) ==
    [time |-> time, billable |-> billable, project |-> project,
     description |-> description, timestamp |-> timestamp]

NoItem == [none |-> TRUE]

RemoveAt(items, i) == SubSeq(items, 1, i - 1) \o SubSeq(items, i + 1, Len(items))

InsertAt(items, i, item) == SubSeq(items, 1, i - 1) \o <<item>> \o SubSeq(items, i, Len(items))

\* addTopLevelItem on a tree with sorting enabled on the project column,
\* ascending: the row goes after the rows whose project is not greater.
AddTopLevelItem(items, item) ==
    LET later == {i \in DOMAIN items : StrLess(item.project, items[i].project)}
        at == IF later = {} THEN Len(items) + 1
              ELSE CHOOSE i \in later : \A j \in later : i <= j
    IN InsertAt(items, at, item)

IsLunch(project) == StrLower(project) = lunch

\* float(item.text(0)) raises ValueError on a row whose time is no numeral
FirstBad(items) ==
    LET bad == {i \in DOMAIN items : ~IsNumeral(items[i].time)}
    IN IF bad = {} THEN 0 ELSE CHOOSE i \in bad : \A j \in bad : i <= j

NoGroups == [l \in {} |-> FZero]

FirstLetter(project) == IF project # <<>> THEN CharUpper(project[1]) ELSE "?"

\* the loop body of update_project_groups on one row
GroupRow(groups, item) ==
    LET Grouped(time, first_letter) ==
            [l \in DOMAIN groups \cup {first_letter} |->
                IF l # first_letter THEN groups[l]
                ELSE IF l \in DOMAIN groups THEN FAdd(groups[l], time) ELSE time]
    IN IF IsLunch(item.project) \/ item.billable # "X" THEN groups
       ELSE Grouped(FloatOfText(item.time), FirstLetter(item.project))

RECURSIVE GroupRows(_, _)
GroupRows(items, n) ==
    IF n = 0 THEN NoGroups ELSE GroupRow(GroupRows(items, n - 1), items[n])

\* update_project_groups: the groups it leaves in self.project_groups, and
\* whether it raised ValueError (at the first row whose time is no numeral)
UpdateProjectGroups(items) ==
    LET Until(bad) ==
            [raised |-> bad # 0,
             groups |-> GroupRows(items, IF bad = 0 THEN Len(items) ELSE bad - 1)]
    IN Until(FirstBad(items))

\* strftime("%I:%M %p") of a minute of the day
ClockText(minute_of_day) ==
    LET h == minute_of_day \div 60
    IN [hour |-> IF h % 12 = 0 THEN 12 ELSE h % 12,
        minute |-> minute_of_day % 60,
        ampm |-> IF h < 12 THEN "AM" ELSE "PM"]

StartHour == 8

\* the expected time update_total computes
ExpectedTime(total, offset) ==
    LET Minutes(total_expected_hours, hours) ==
            Trunc(FMul(FSub(total_expected_hours, FromInt(hours)), 60))
        Expected(total_expected_hours, hours) ==
            ClockText((StartHour * 60 + hours * 60
                       + Minutes(total_expected_hours, hours)) % (24 * 60))
        After(total_expected_hours) ==
            Expected(total_expected_hours, Trunc(total_expected_hours))
    IN After(FAdd(total, offset))

\* update_total: project groups first, then the labels
UpdateTotal(items, total, offset, label) ==
    LET Labelled(upg) ==
            [raised |-> upg.raised,
             groups |-> upg.groups,
             label |-> IF upg.raised THEN label ELSE ExpectedTime(total, offset)]
    IN Labelled(UpdateProjectGroups(items))

----------------------------------------------------------------------------
(* JSON documents and files *)

JNum(x) == [num |-> x]
JStr(s) == [str |-> s]
IsJNum(v) == "num" \in DOMAIN v

\* str(entry['time'])
StrOfJson(v) == IF IsJNum(v) THEN StrFloat(v.num) ELSE Word(v.str)

JsonFile(data) == [json |-> TRUE, data |-> data]

RequiredKeys == {"time", "project", "description", "timestamp"}

\* one turn of load_timesheet's loop over data['entries']
LoadEntry(entry, st) ==
    IF ~(RequiredKeys \subseteq DOMAIN entry) THEN [st EXCEPT !.raised = TRUE]
    ELSE LET Counted(added, billable) ==
                 IF ~IsJNum(entry.time) THEN [added EXCEPT !.raised = TRUE]
                 ELSE IF IsLunch(entry.project)
                 THEN [added EXCEPT !.offset = FAdd(st.offset, entry.time.num)]
                 ELSE [added EXCEPT
                          !.total = FAdd(st.total, entry.time.num),
                          !.billable = IF billable THEN FAdd(st.billable, entry.time.num)
                                       ELSE st.billable]
             Added(billable) ==
                 Counted([st EXCEPT !.tree = AddTopLevelItem(st.tree,
                              Item(StrOfJson(entry.time), IF billable THEN "X" ELSE "",
                                   entry.project, entry.description, entry.timestamp))],
                         billable)
         IN Added(IF "billable" \in DOMAIN entry THEN entry.billable ELSE TRUE)

RECURSIVE LoadEntries(_, _, _)
LoadEntries(entries, i, st) ==
    IF st.raised \/ i > Len(entries) THEN st
    ELSE LoadEntries(entries, i + 1, LoadEntry(entries[i], st))

\* load_timesheet without lines 239-241: the counters are not zeroed
LoadDataOntoCounters(data) ==
    LET uncleared == [tree |-> <<>>, total |-> total_time, billable |-> billable_time,
                      offset |-> expected_time_offset, raised |-> FALSE]
    IN IF "entries" \notin DOMAIN data THEN [uncleared EXCEPT !.raised = TRUE]
       ELSE LoadEntries(data.entries, 1, uncleared)

\* load_timesheet from the clearing of the tree to the end of the loop
LoadData(data) ==
    LET cleared == [tree |-> <<>>, total |-> FZero, billable |-> FZero,
                    offset |-> FZero, raised |-> FALSE]
    IN IF "entries" \notin DOMAIN data THEN [cleared EXCEPT !.raised = TRUE]
       ELSE LoadEntries(data.entries, 1, cleared)

\* the document save_to_file builds
SaveData(items, total, billable, offset) ==
    [entries |-> [i \in DOMAIN items |->
                    [time |-> JNum(FloatOfText(items[i].time)),
                     project |-> items[i].project,
                     description |-> items[i].description,
                     timestamp |-> items[i].timestamp,
                     billable |-> items[i].billable = "X"]],
     total_time |-> JNum(total),
     billable_time |-> JNum(billable),
     expected_time_offset |-> JNum(offset)]

----------------------------------------------------------------------------
(* Inputs: what the user types, picks and answers, and the files on disk *)

TimeTexts == {Numeral(3, 1), Numeral(5, 2), Numeral(25, 1), Word("abc")}
ProjectTexts == {<<>>, Lunch}
Descriptions == {"build"}
Clock == {"09:00:00 AM", "12:00:00 PM"}
Replies == {"Yes", "No"}

NoFile == ""
Filenames == {"old.json", "noentries.json", "nostamp.json", "badtime.json", "notes.txt"}

\* a file that cannot be opened or is not JSON
Unreadable == [json |-> FALSE]

InitialFiles ==
    [f \in Filenames |->
        CASE f = "old.json" ->
               JsonFile([entries |-> <<
                   [time |-> JNum(ParseDecimal(25, 1)), project |-> Widgets,
                    description |-> "build", timestamp |-> "09:00:00 AM"],
                   [time |-> JNum(ParseDecimal(10, 1)), project |-> lunch,
                    description |-> "", timestamp |-> "12:00:00 PM", billable |-> FALSE]>>,
                 total_time |-> JNum(ParseDecimal(99, 1)),
                 billable_time |-> JNum(FZero),
                 expected_time_offset |-> JNum(FZero)])
          [] f = "noentries.json" ->
               JsonFile([total_time |-> JNum(ParseDecimal(25, 1))])
          [] f = "nostamp.json" ->
               JsonFile([entries |-> <<
                   [time |-> JNum(ParseDecimal(3, 1)), project |-> wip,
                    description |-> "build", timestamp |-> "09:00:00 AM", billable |-> TRUE],
                   [time |-> JNum(ParseDecimal(10, 1)), project |-> Widgets,
                    description |-> "build", billable |-> TRUE]>>])
          [] f = "badtime.json" ->
               JsonFile([entries |-> <<
                   [time |-> JStr("abc"), project |-> Widgets,
                    description |-> "build", timestamp |-> "09:00:00 AM"]>>])
          [] OTHER -> Unreadable]

----------------------------------------------------------------------------
(* The window *)

Init ==
    /\ tree = <<>>
    /\ total_time = FZero
    /\ billable_time = FZero
    /\ expected_time_offset = FZero
    /\ project_groups = NoGroups
    /\ expected_time_label = ClockText(StartHour * 60)
    /\ current_file = NoFile
    /\ editing = NoItem
    /\ running = TRUE
    /\ fs = InitialFiles
    /\ adds = 0
    /\ writes = 0

\* the validation of add_entry: round(time * 10) % 1 == 0
HoursAccepted(time) == (PyRound(FMul(time, 10)) % 1) = 0

\* the three counters of the window
Counters == [total |-> total_time, billable |-> billable_time,
             offset |-> expected_time_offset]

\* add_entry's counters after counting the new row
Count(c, project, checked, time) ==
    IF IsLunch(project)
    THEN [c EXCEPT !.offset = FAdd(c.offset, time)]
    ELSE [c EXCEPT !.total = FAdd(c.total, time),
                   !.billable = IF checked THEN FAdd(c.billable, time) ELSE c.billable]

\* edit_entry's and delete_entry's counters after removing a row
Uncount(c, item) ==
    LET Less(time) ==
            IF IsLunch(item.project)
            THEN [c EXCEPT !.offset = FSub(c.offset, time)]
            ELSE [c EXCEPT !.total = FSub(c.total, time),
                           !.billable = IF item.billable = "X" THEN FSub(c.billable, time)
                                        ELSE c.billable]
    IN Less(FloatOfText(item.time))

\* the timestamp add_entry gives the new row, at clock reading now
Timestamp(now) == now

\* the "Add Entry" button, with the form holding text, project_text,
\* description and the billable checkbox, at clock reading now.  A text
\* float() rejects, or hours the validation rejects, raise ValueError, which
\* add_entry reports and nothing changes.  ValueError raised by update_total
\* (a row of the tree whose time is no numeral) is caught the same way, after
\* the row and the counters were added and before the form is cleared.
AddEntry(text, project_text, description, checked, now) ==
    /\ running
    /\ IF ~IsNumeral(text) \/ ~HoursAccepted(FloatOfText(text))
       THEN UNCHANGED vars
       ELSE \E time \in {FloatOfText(text)},
               project \in {IF project_text = <<>> THEN kdg ELSE project_text} :
            \E rows \in {AddTopLevelItem(tree,
                              Item(StrFloat(time), IF checked THEN "X" ELSE "",
                                   project, description, Timestamp(now)))},
               c \in {Count(Counters, project, checked, time)} :
            \E upd \in {UpdateTotal(rows, c.total, c.offset, expected_time_label)} :
               /\ Len(tree) < MaxEntries
               /\ adds < MaxAdds
               /\ adds' = adds + 1
               /\ tree' = rows
               /\ total_time' = c.total
               /\ billable_time' = c.billable
               /\ expected_time_offset' = c.offset
               /\ project_groups' = upd.groups
               /\ expected_time_label' = upd.label
               /\ editing' = IF upd.raised THEN editing ELSE NoItem
               /\ UNCHANGED <<current_file, running, fs, writes>>

\* Row sel leaves the tree and the counters: the part edit_entry and
\* delete_entry share.  An exception that leaves the slot (float() of a time
\* that is no numeral, here in update_total) ends the application.
TakeRow(sel) ==
    \E u \in {Uncount(Counters, tree[sel])}, rows \in {RemoveAt(tree, sel)} :
    \E upd \in {UpdateTotal(rows, u.total, u.offset, expected_time_label)} :
       /\ tree' = rows
       /\ total_time' = u.total
       /\ billable_time' = u.billable
       /\ expected_time_offset' = u.offset
       /\ project_groups' = upd.groups
       /\ expected_time_label' = upd.label
       /\ running' = ~upd.raised

\* edit_entry that only fills the form, leaving the row for add_entry to replace
EditEntryInPlace(sel) ==
    /\ running
    /\ IF sel = 0
       THEN UNCHANGED vars
       ELSE /\ editing' = tree[sel]
            /\ UNCHANGED <<tree, total_time, billable_time, expected_time_offset,
                           project_groups, expected_time_label, current_file,
                           running, fs, adds, writes>>

\* the "Edit" button with row sel current (0: no current row)
EditEntry(sel) ==
    /\ running
    /\ IF sel = 0
       THEN UNCHANGED vars
       ELSE IF ~IsNumeral(tree[sel].time)
       THEN /\ running' = FALSE
            /\ UNCHANGED <<tree, total_time, billable_time, expected_time_offset,
                           project_groups, expected_time_label, current_file,
                           editing, fs, adds, writes>>
       ELSE /\ TakeRow(sel)
            /\ editing' = tree[sel]
            /\ UNCHANGED <<current_file, fs, adds, writes>>

\* the "Delete" button with row sel current (0: no current row), the
\* confirmation answered reply
DeleteEntry(sel, reply) ==
    /\ running
    /\ IF sel = 0 \/ reply # "Yes"
       THEN UNCHANGED vars
       ELSE IF ~IsNumeral(tree[sel].time)
       THEN /\ running' = FALSE
            /\ UNCHANGED <<tree, total_time, billable_time, expected_time_offset,
                           project_groups, expected_time_label, current_file,
                           editing, fs, adds, writes>>
       ELSE /\ TakeRow(sel)
            /\ UNCHANGED <<current_file, editing, fs, adds, writes>>

\* File > New, the confirmation (asked when the tree has rows) answered reply
NewTimesheet(reply) ==
    /\ running
    /\ IF Len(tree) > 0 /\ reply = "No"
       THEN UNCHANGED vars
       ELSE \E upd \in {UpdateTotal(<<>>, FZero, FZero, expected_time_label)} :
               /\ tree' = <<>>
               /\ total_time' = FZero
               /\ billable_time' = FZero
               /\ expected_time_offset' = FZero
               /\ project_groups' = upd.groups
               /\ expected_time_label' = upd.label
               /\ current_file' = NoFile
               /\ UNCHANGED <<editing, running, fs, adds, writes>>

\* File > Open, the confirmation answered reply and the file dialog filename
\* (NoFile: cancelled).  A file that does not open or parse is reported with
\* nothing changed; an exception raised after that is reported with the tree
\* and the counters as the loop left them.
LoadTimesheet(reply, filename) ==
    /\ running
    /\ IF (Len(tree) > 0 /\ reply = "No") \/ filename = NoFile
       THEN UNCHANGED vars
       ELSE IF ~fs[filename].json
       THEN UNCHANGED vars
       ELSE \E st \in {LoadData(fs[filename].data)} :
            \E upd \in {UpdateTotal(st.tree, st.total, st.offset, expected_time_label)} :
               /\ tree' = st.tree
               /\ total_time' = st.total
               /\ billable_time' = st.billable
               /\ expected_time_offset' = st.offset
               /\ current_file' = filename
               /\ project_groups' = IF st.raised THEN project_groups ELSE upd.groups
               /\ expected_time_label' =
                     IF st.raised THEN expected_time_label ELSE upd.label
               /\ UNCHANGED <<editing, running, fs, adds, writes>>

\* save_to_file: float() of a time that is no numeral raises out of the
\* slot; open() may fail (outcome "unopened", the file untouched) and
\* json.dump may fail midway (outcome "partial", the file left unreadable).
\* Both failures are reported and caught.
SaveToFile(filename, outcome) ==
    IF FirstBad(tree) # 0
    THEN /\ running' = FALSE
         /\ UNCHANGED <<fs, writes>>
    ELSE IF outcome = "unopened"
    THEN UNCHANGED <<running, fs, writes>>
    ELSE /\ writes < MaxWrites
         /\ writes' = writes + 1
         /\ fs' = [fs EXCEPT ![filename] =
                      IF outcome = "written"
                      THEN JsonFile(SaveData(tree, total_time, billable_time,
                                             expected_time_offset))
                      ELSE Unreadable]
         /\ UNCHANGED running

\* File > Save As, the file dialog answering filename (NoFile: cancelled)
SaveAsTimesheet(filename, outcome) ==
    /\ running
    /\ IF filename = NoFile
       THEN UNCHANGED vars
       ELSE /\ SaveToFile(filename, outcome)
            /\ current_file' = IF running' THEN filename ELSE current_file
            /\ UNCHANGED <<tree, total_time, billable_time, expected_time_offset,
                           project_groups, expected_time_label, editing, adds>>

\* File > Save
SaveTimesheet(filename, outcome) ==
    IF current_file = NoFile
    THEN SaveAsTimesheet(filename, outcome)
    ELSE /\ running
         /\ SaveToFile(current_file, outcome)
         /\ UNCHANGED <<tree, total_time, billable_time, expected_time_offset,
                        project_groups, expected_time_label, current_file,
                        editing, adds>>

Outcomes == {"written", "unopened", "partial"}

Next ==
    \/ \E text \in TimeTexts, project_text \in ProjectTexts, description \in Descriptions,
          checked \in BOOLEAN, now \in Clock :
            AddEntry(text, project_text, description, checked, now)
    \/ \E sel \in 0..Len(tree) : EditEntry(sel)
    \/ \E sel \in 0..Len(tree), reply \in Replies : DeleteEntry(sel, reply)
    \/ \E reply \in Replies : NewTimesheet(reply)
    \/ \E reply \in Replies, filename \in Filenames \cup {NoFile} :
            LoadTimesheet(reply, filename)

\* The editing session: the form, the buttons, New and Open, the files on disk
\* as they are found.
Spec == Init /\ [][Next]_vars

\* The session with Save and Save As, on fewer inputs.
SavedTimeTexts == {Numeral(3, 1), Numeral(25, 1)}
SavedFilenames == {"old.json", "noentries.json", "notes.txt"}

NextSaving ==
    \/ \E text \in SavedTimeTexts, now \in Clock : AddEntry(text, <<>>, "build", TRUE, now)
    \/ \E sel \in 0..Len(tree) : EditEntry(sel)
    \/ \E sel \in 0..Len(tree) : DeleteEntry(sel, "Yes")
    \/ NewTimesheet("Yes")
    \/ \E filename \in SavedFilenames : LoadTimesheet("Yes", filename)
    \/ \E filename \in SavedFilenames \cup {NoFile}, outcome \in Outcomes :
            SaveTimesheet(filename, outcome)
    \/ \E filename \in SavedFilenames \cup {NoFile}, outcome \in Outcomes :
            SaveAsTimesheet(filename, outcome)

SpecSaving == Init /\ [][NextSaving]_vars

----------------------------------------------------------------------------
(* What the specification says of the aggregates: sums over the entries held *)

\* the hours of the rows, as numbers
RowHours(items) == [i \in DOMAIN items |-> FloatOfText(items[i].time)]

\* hours[i] summed over i in idx, in row order
RECURSIVE SumHours(_, _)
SumHours(hours, idx) ==
    IF idx = {} THEN FZero
    ELSE LET Plus(last) == FAdd(SumHours(hours, idx \ {last}), hours[last])
         IN Plus(CHOOSE i \in idx : \A j \in idx : j <= i)

Worked(items) == {i \in DOMAIN items : ~IsLunch(items[i].project)}
Billed(items) == {i \in Worked(items) : items[i].billable = "X"}
LunchBreaks(items) == {i \in DOMAIN items : IsLunch(items[i].project)}

\* per-first-letter (uppercased) hours of the non-lunch billable rows
GroupSums(items) ==
    [l \in {FirstLetter(items[i].project) : i \in Billed(items)} |->
        SumHours(RowHours(items),
                 {i \in Billed(items) : FirstLetter(items[i].project) = l})]

AggregatesRecomputed(items, total, billable, offset, groups) ==
    /\ total = SumHours(RowHours(items), Worked(items))
    /\ billable = SumHours(RowHours(items), Billed(items))
    /\ offset = SumHours(RowHours(items), LunchBreaks(items))
    /\ groups = GroupSums(items)

Aggregates == <<total_time, billable_time, expected_time_offset, project_groups>>

\* C1: in every reachable state, failed operations included, total_hours,
\* billable_hours, offset_hours and project_groups equal the sums recomputed
\* over the entries currently held (non-lunch, non-lunch billable, lunch, and
\* per first letter over non-lunch billable).  Stated of the states whose
\* every row has numeric hours, where the sums are defined.
C1_AggregatesRecomputed ==
    (running /\ FirstBad(tree) = 0) =>
        AggregatesRecomputed(tree, total_time, billable_time,
                             expected_time_offset, project_groups)

\* hours text that is greater than 0 and a multiple of 0.1
PositiveTenths(text) ==
    /\ "digits" \in DOMAIN text
    /\ text.digits > 0
    /\ (text.digits * 10) % (10 ^ text.places) = 0

\* C2: add_entry with hours that are not greater than 0 or not a multiple of
\* 0.1 (0.05) creates no entry and changes no aggregate; add_entry with a
\* positive multiple of 0.1 (0.3) adds one entry.
C2_AddValidatesHours ==
    [][\A text \in TimeTexts, project_text \in ProjectTexts,
          description \in Descriptions, checked \in BOOLEAN, now \in Clock :
          AddEntry(text, project_text, description, checked, now) =>
              IF PositiveTenths(text)
              THEN Len(tree') = Len(tree) + 1
              ELSE UNCHANGED <<tree, Aggregates>>]_vars

\* a document load accepts: an entries key, every entry with time, project,
\* description and timestamp, every time numeric
WellFormed(data) ==
    /\ "entries" \in DOMAIN data
    /\ \A i \in DOMAIN data.entries :
          /\ RequiredKeys \subseteq DOMAIN data.entries[i]
          /\ IsJNum(data.entries[i].time)

\* C3: a load that fails because the document has no entries key, or an
\* entry lacks a required key, or a time is not numeric, leaves the entries
\* and the four aggregates as they were before it.
C3_FailedLoadKeepsTimesheet ==
    [][\A reply \in Replies, filename \in Filenames :
          (/\ LoadTimesheet(reply, filename)
           /\ fs[filename].json
           /\ ~WellFormed(fs[filename].data))
          => UNCHANGED <<tree, Aggregates>>]_vars

\* C4: the entry that add_entry creates after edit_entry took a row out
\* carries the timestamp of that row.
C4_EditKeepsTimestamp ==
    [][(editing # NoItem /\ editing' = NoItem) =>
          \E i \in DOMAIN tree' :
              /\ RemoveAt(tree', i) = tree
              /\ tree'[i].timestamp = editing.timestamp]_vars

\* the rows a document's entries make, an entry without billable flagged
DocItems(data) ==
    [i \in DOMAIN data.entries |->
        Item(StrOfJson(data.entries[i].time),
             IF "billable" \in DOMAIN data.entries[i] /\ ~data.entries[i].billable
             THEN "" ELSE "X",
             data.entries[i].project, data.entries[i].description,
             data.entries[i].timestamp)]

DocHours(data) == [i \in DOMAIN data.entries |-> data.entries[i].time.num]

\* the same rows, whatever their order
SameRows(a, b) ==
    /\ Len(a) = Len(b)
    /\ \A x \in Range(a) \cup Range(b) :
          Cardinality({i \in DOMAIN a : a[i] = x}) = Cardinality({i \in DOMAIN b : b[i] = x})

\* C5: after a successful load the tree holds exactly the document's entries
\* and the three counters are the sums over those entries alone, an entry
\* without a billable field counted as billable; the totals stored in the
\* document and the counters held before the load play no part.
C5_LoadRecomputes ==
    [][\A reply \in Replies, filename \in Filenames :
          (/\ fs[filename].json
           /\ WellFormed(fs[filename].data)
           /\ LoadTimesheet(reply, filename))
          => /\ SameRows(tree', DocItems(fs[filename].data))
             /\ total_time' = SumHours(DocHours(fs[filename].data),
                                       Worked(DocItems(fs[filename].data)))
             /\ billable_time' = SumHours(DocHours(fs[filename].data),
                                          Billed(DocItems(fs[filename].data)))
             /\ expected_time_offset' = SumHours(DocHours(fs[filename].data),
                                                 LunchBreaks(DocItems(fs[filename].data)))]_vars

\* C5's case: old.json loaded over a sheet that had rows added; its first
\* entry has no billable field, its stored total_time is stale.
C5_LoadedOverEntries ==
    /\ current_file = "old.json"
    /\ adds > 0
    /\ SameRows(tree, DocItems(fs["old.json"].data))
    /\ "billable" \notin DOMAIN fs["old.json"].data.entries[1]
    /\ billable_time = fs["old.json"].data.entries[1].time.num
    /\ total_time # fs["old.json"].data.total_time.num

\* floor(a)
Floor(a) ==
    IF a.neg /\ FromInt(Trunc(a)) # a THEN Trunc(a) - 1 ELSE Trunc(a)

\* 8:00 AM plus floor(T) hours plus round((T - floor(T)) * 60) minutes
EndTime(T) ==
    ClockText((StartHour * 60 + Floor(T) * 60
               + PyRound(FMul(FSub(T, FromInt(Floor(T))), 60))) % (24 * 60))

\* C7: the expected end time an operation shows is 8:00 AM plus floor(T)
\* hours plus round((T - floor(T)) * 60) minutes, T the sum of total_hours
\* and offset_hours of the state the operation leaves.
C7_EndTimeRounded ==
    [][expected_time_label' # expected_time_label =>
          expected_time_label' = EndTime(FAdd(total_time', expected_time_offset'))]_vars

\* the counters without the contribution of a row: lunch hours off the
\* offset, other hours off the total and, when flagged, off the billable
Reversed(c, item) ==
    [total |-> IF IsLunch(item.project) THEN c.total
               ELSE FSub(c.total, FloatOfText(item.time)),
     billable |-> IF ~IsLunch(item.project) /\ item.billable = "X"
                  THEN FSub(c.billable, FloatOfText(item.time)) ELSE c.billable,
     offset |-> IF IsLunch(item.project) THEN FSub(c.offset, FloatOfText(item.time))
                ELSE c.offset]

\* add_entry of a row, then delete_entry of that row: <<counters, groups>>
AddedThenDeleted(text, project_text, checked) ==
    LET Deleted(rows, c, item) ==
            <<Uncount(c, item),
              UpdateProjectGroups(RemoveAt(rows,
                  CHOOSE i \in DOMAIN rows :
                      rows[i] = item /\ RemoveAt(rows, i) = tree)).groups>>
        Added(time, project) ==
            Deleted(AddTopLevelItem(tree, Item(StrFloat(time), IF checked THEN "X" ELSE "",
                                               project, "build", "09:00:00 AM")),
                    Count(Counters, project, checked, time),
                    Item(StrFloat(time), IF checked THEN "X" ELSE "",
                         project, "build", "09:00:00 AM"))
    IN Added(FloatOfText(text), IF project_text = <<>> THEN kdg ELSE project_text)

\* C8: from any reachable state, adding an entry (lunch, billable or not
\* billable) and then deleting it returns the three counters and
\* project_groups to exactly the values they had before the add.
C8_AddThenDeleteRestores ==
    (running /\ FirstBad(tree) = 0) =>
        \A text \in {t \in TimeTexts : IsNumeral(t)}, project_text \in ProjectTexts,
           checked \in BOOLEAN :
            AddedThenDeleted(text, project_text, checked) = <<Counters, project_groups>>

\* C9: edit_entry takes the row out of the tree and its hours out of the
\* counters at once, and an add_entry that then fails validation changes
\* neither the tree nor the aggregates: the row is not put back.
C9_EditNotAtomic ==
    [][/\ \A sel \in DOMAIN tree :
             (EditEntry(sel) /\ editing' = tree[sel])
             => /\ tree' = RemoveAt(tree, sel)
                /\ Counters' = Reversed(Counters, tree[sel])
       /\ \A text \in TimeTexts, project_text \in ProjectTexts,
             description \in Descriptions, checked \in BOOLEAN, now \in Clock :
             (/\ editing # NoItem
              /\ ~IsNumeral(text)
              /\ AddEntry(text, project_text, description, checked, now))
             => UNCHANGED <<tree, Aggregates, editing>>]_vars

\* C9's case: the only row was taken out by edit_entry and not added again
C9_EditedRowGone ==
    /\ running
    /\ adds = 1
    /\ editing # NoItem
    /\ tree = <<>>
    /\ total_time = FZero
    /\ current_file = NoFile

\* C10: delete_entry and edit_entry without a current row change nothing;
\* delete_entry of a row removes exactly that row and takes its hours off
\* the counters add_entry had added them to.
C10_DeleteRemovesTarget ==
    [][/\ \A reply \in Replies :
             (EditEntry(0) \/ DeleteEntry(0, reply)) => UNCHANGED <<tree, Aggregates>>
       /\ \A sel \in DOMAIN tree :
             DeleteEntry(sel, "Yes")
             => /\ tree' = RemoveAt(tree, sel)
                /\ Counters' = Reversed(Counters, tree[sel])]_vars

\* C6: loading a document that save_to_file wrote yields the saved entries
\* and the counters the saved timesheet had (the document records both).
C6_SaveLoadRoundTrip ==
    [][\A filename \in SavedFilenames :
          (/\ LoadTimesheet("Yes", filename)
           /\ fs[filename] # InitialFiles[filename]
           /\ fs[filename].json)
          => /\ SameRows(tree', DocItems(fs[filename].data))
             /\ total_time' = fs[filename].data.total_time.num
             /\ billable_time' = fs[filename].data.billable_time.num
             /\ expected_time_offset' = fs[filename].data.expected_time_offset.num]_vars

\* C11: current_file, the file Save writes to, changes only when a load or
\* a Save As completes successfully (or File > New forgets it): a load that
\* fails on the document and a Save As whose write fails leave it as it was.
C11_CurrentFileOnSuccess ==
    [][current_file' # current_file =>
          \/ current_file' = NoFile
          \/ /\ fs[current_file'].json
             /\ WellFormed(fs[current_file'].data)
             /\ \E reply \in Replies : LoadTimesheet(reply, current_file')
          \/ /\ writes' = writes + 1
             /\ fs'[current_file'] =
                   JsonFile(SaveData(tree, total_time, billable_time,
                                     expected_time_offset))]_vars

====
